---- MODULE Spec2Model ----
(***************************************************************************)
(* QuadraVerb reverb engine: the AudioWorklet processor                    *)
(* (quadreverb-processor.js) and the part of its node wrapper              *)
(* (quadraverb-node.js) that posts parameter messages to it.               *)
(*                                                                         *)
(* Numbers.  JavaScript numbers are modelled in decimal fixed point: the   *)
(* real x is the integer x * ONE, products and quotients are truncated to  *)
(* 1/ONE.  Every multiplication is split so that no intermediate value     *)
(* leaves 32 bits.  NaN is a value of its own that every arithmetic        *)
(* operator propagates, as IEEE arithmetic does (an out-of-range read of   *)
(* a Float32Array yields undefined, and undefined * x is NaN).             *)
(* lowCutHz, highCutHz and mode are kept as plain integers (hertz, table   *)
(* index); preDelayMs is fixed-point milliseconds.                         *)
(***************************************************************************)
EXTENDS Integers, Sequences, FiniteSets, TLC

\* ------------------------------------------------------------ bounds
\* the number of operations (messages posted, blocks processed) explored
MaxOps == 2
\* the number of frames of the long block of silence
LongBlockFrames == 218

\* ------------------------------------------------------------ numbers
ONE == 1000 * 1000
KSPLIT == 1000
NaN == 0 - 2100000000
INF == 2000000000
TWO_PI == 6283185
HALF_PI == 1570796
PI == 3141593
LN10 == 2302585

\* body, with v evaluated first: the order of the sequential code
Strict(v, body) == IF v = v THEN body ELSE body

Abs(x) == IF x < 0 THEN 0 - x ELSE x
Sgn(x) == IF x < 0 THEN 0 - 1 ELSE 1
IsNaN(x) == x = NaN

\* |a| * |b| / ONE, truncated
MulAbs(a, b) ==
  LET ah == a \div KSPLIT
      al == a % KSPLIT
      bh == b \div KSPLIT
      bl == b % KSPLIT
  IN  ah * bh + (ah * bl + al * bh) \div KSPLIT + (al * bl) \div ONE

\* a * b
Mul(a, b) ==
  IF IsNaN(a) \/ IsNaN(b) THEN NaN
  ELSE IF a = 0 \/ b = 0 THEN 0
  ELSE Sgn(a) * Sgn(b) * MulAbs(Abs(a), Abs(b))

\* a + b, a - b
Add(a, b) == IF IsNaN(a) \/ IsNaN(b) THEN NaN ELSE a + b
Sub(a, b) == IF IsNaN(a) \/ IsNaN(b) THEN NaN ELSE a - b

\* floor(a * b / c) for a, b >= 0, c > 0, by long multiplication over the
\* decimal digits of b (most significant first)
RECURSIVE MulDivQR(_, _, _)
MulDivQR(a, b, c) ==
  IF b = 0 THEN [q |-> 0, r |-> 0]
  ELSE LET up == MulDivQR(a, b \div 10, c)
           v == 10 * up.r + a * (b % 10)
       IN  [q |-> 10 * up.q + v \div c, r |-> v % c]

MulDiv(a, b, c) == MulDivQR(a, b, c).q

\* a / b for b # 0 (fixed point), truncated
Div(a, b) ==
  IF IsNaN(a) \/ IsNaN(b) THEN NaN
  ELSE Sgn(a) * Sgn(b) * MulDiv(Abs(a), ONE, Abs(b))

\* Math.max / Math.min: NaN if either argument is NaN
MathMax(a, b) == IF IsNaN(a) \/ IsNaN(b) THEN NaN ELSE IF a > b THEN a ELSE b
MathMin(a, b) == IF IsNaN(a) \/ IsNaN(b) THEN NaN ELSE IF a < b THEN a ELSE b
MathAbs(a) == IF IsNaN(a) THEN NaN ELSE Abs(a)

\* a > b as JavaScript evaluates it: false when either side is NaN
Gt(a, b) == ~IsNaN(a) /\ ~IsNaN(b) /\ a > b

\* exp(-y) for 0 <= y < 2, Taylor series to the 10th power
RECURSIVE ExpNegSeries(_, _, _, _)
ExpNegSeries(y, term, n, acc) ==
  IF n > 10 \/ term = 0 THEN acc
  ELSE LET t == MulAbs(term, y) \div n
       IN  ExpNegSeries(y, t, n + 1, IF n % 2 = 1 THEN acc - t ELSE acc + t)

RECURSIVE SquareTimes(_, _)
SquareTimes(x, k) == IF k = 0 THEN x ELSE SquareTimes(MulAbs(x, x), k - 1)

\* Math.exp(-x) for x >= 0
ExpNeg(x) ==
  IF x >= 16 * ONE THEN 0
  ELSE SquareTimes(ExpNegSeries(x \div 16, ONE, 1, ONE), 4)

\* Math.pow(10, e): INF stands for every result above 1 that Math.min cuts
Pow10(e) ==
  IF IsNaN(e) THEN NaN
  ELSE IF e = INF THEN INF
  ELSE IF e = 0 - INF THEN 0
  ELSE IF e > 0 THEN INF
  ELSE ExpNeg(MulAbs(0 - e, LN10))

\* sin on [0, pi/2], Taylor series to the 11th power
SinQuarter(x) ==
  LET x2 == MulAbs(x, x)
      t3 == MulAbs(x, x2) \div 6
      t5 == MulAbs(t3, x2) \div 20
      t7 == MulAbs(t5, x2) \div 42
      t9 == MulAbs(t7, x2) \div 72
      t11 == MulAbs(t9, x2) \div 110
  IN  x - t3 + t5 - t7 + t9 - t11

\* Math.sin(x) for a finite x >= 0
MathSin(x) ==
  LET r == x % TWO_PI
  IN  IF r <= HALF_PI THEN SinQuarter(r)
      ELSE IF r <= PI THEN SinQuarter(PI - r)
      ELSE IF r <= PI + HALF_PI THEN 0 - SinQuarter(r - PI)
      ELSE 0 - SinQuarter(TWO_PI - r)


\* ------------------------------------------------------------ buffers
\* A Float32Array of `cap` zeros is the empty function; only non-zero
\* samples are stored.  A read outside 0..cap-1 yields undefined, which
\* every use in the processor turns into NaN; a write outside is dropped.
EmptyBuffer == [i \in {} |-> 0]

BufRead(buf, cap, i) ==
  IF i < 0 \/ i >= cap THEN NaN
  ELSE IF i \in DOMAIN buf THEN buf[i] ELSE 0

BufWrite(buf, cap, i, v) ==
  IF i < 0 \/ i >= cap THEN buf
  ELSE IF v = 0 THEN [k \in (DOMAIN buf) \ {i} |-> buf[k]]
  ELSE [k \in (DOMAIN buf) \cup {i} |-> IF k = i THEN v ELSE buf[k]]

\* ------------------------------------------------------------ parameters
Fields ==
  {"mix", "preDelayMs", "decay", "size", "diffusion", "lowCutHz", "highCutHz",
   "color", "modRate", "modDepth", "stereoWidth", "vintage", "mode"}

\* lowCutHz, highCutHz and mode hold plain integers; the rest are fixed point
DefaultParams ==
  [mix |-> 500000, preDelayMs |-> 20 * ONE, decay |-> 3 * ONE, size |-> 700000,
   diffusion |-> 750000, lowCutHz |-> 100, highCutHz |-> 6000, color |-> 500000,
   modRate |-> 500000, modDepth |-> 300000, stereoWidth |-> 900000,
   vintage |-> 300000, mode |-> 0]

\* the mode presets of updateInternalParams
Modes ==
  [m \in 0..3 |->
     CASE m = 0 -> [sizeScale |-> 900000, diffGain |-> 750000, dampBase |-> 880000, hpBase |-> 60000]
       [] m = 1 -> [sizeScale |-> 1400000, diffGain |-> 700000, dampBase |-> 920000, hpBase |-> 40000]
       [] m = 2 -> [sizeScale |-> 500000, diffGain |-> 650000, dampBase |-> 850000, hpBase |-> 80000]
       [] m = 3 -> [sizeScale |-> 2 * ONE, diffGain |-> 800000, dampBase |-> 950000, hpBase |-> 30000]]

ModePreset(p) == Modes[p.mode % 4]

fdnBaseSizes ==
  [i \in 0..7 |->
     CASE i = 0 -> 1453 [] i = 1 -> 1789 [] i = 2 -> 2099 [] i = 3 -> 2423
       [] i = 4 -> 2789 [] i = 5 -> 3167 [] i = 6 -> 3547 [] i = 7 -> 3989]

FdnInitialCapacity == 8192
FeedbackCap == 985000

\* ------------------------------------------------------------ parameter mapper
\* 1 - Math.exp(-2 pi cutoffHz / sr).  A zero sr makes omega 0/0 or
\* +Infinity; from cutoffHz = 3 sr on, omega is past 16 and Math.exp(-omega)
\* is below 1/ONE.
onePoleCoeff(cutoffHz, sr) ==
  IF sr = 0 /\ cutoffHz = 0 THEN NaN
  ELSE IF cutoffHz >= 3 * sr THEN ONE
  ELSE ONE - ExpNeg(MulDiv(TWO_PI, cutoffHz, sr))

\* (0.3 + p.size * 1.7) * mode.sizeScale
sizeMultiplier(p) == Mul(300000 + Mul(p.size, 1700000), ModePreset(p).sizeScale)

\* Math.floor(line.baseSize * sizeMultiplier)
LineSize(baseSize, p) == MulDiv(sizeMultiplier(p), baseSize, ONE)

RECURSIVE SumSizes(_, _)
SumSizes(lines, i) == IF i > 7 THEN 0 ELSE lines[i].size + SumSizes(lines, i + 1)

\* (sum of line.size / 8) / sr, in seconds.  INF stands for Infinity (sr = 0)
\* and for every average of 2000 s or more.
avgDelaySeconds(lines, sr) ==
  IF SumSizes(lines, 0) \div 8 >= 2000 * sr THEN INF
  ELSE MulDiv(SumSizes(lines, 0), ONE \div 8, sr)

\* the divisor of the RT60 formula: decaySeconds = targetRT60 = p.decay
targetRT60(p) == p.decay

\* -3 * avgDelaySeconds / targetRT60, with the IEEE results of a zero
\* divisor.  An exponent past 7 in size is given as -INF or INF: Math.pow(10, .)
\* of it is below 1/ONE, or above 1.
RT60Exponent(avg, rt60) ==
  IF rt60 = 0 THEN (IF avg = 0 THEN NaN ELSE 0 - INF)
  ELSE IF avg = INF \/ avg >= 7 * (Abs(rt60) \div 3) + 7
    THEN (IF rt60 > 0 THEN 0 - INF ELSE INF)
  ELSE Div(0 - 3 * avg, rt60)

\* feedbackGain without the Math.min
feedbackGainUncapped(avg, rt60) == Pow10(RT60Exponent(avg, rt60))

\* Math.min(Math.pow(10, exponent), 0.985)
feedbackGain(avg, rt60) == MathMin(Pow10(RT60Exponent(avg, rt60)), FeedbackCap)

\* dampCoeff * (0.95 + Math.random() * 0.1)
DampJitter(dampCoeff, rnd) == Mul(dampCoeff, 950000 + Mul(rnd, 100000))

\* 2000 + (p.color - 0.5) * 8000, then Math.max(colorCutoff, 200), in hertz
ColorCutoff(p) ==
  LET d == p.color - 500000
      c == 2000 + Sgn(d) * ((Abs(d) * 8) \div 1000)
  IN  IF c > 200 THEN c ELSE 200

\* baseRate * (0.8 + i * 0.2)
LfoRate(p, i) == Mul(Mul(p.modRate, 3000), 800000 + i * 200000)


\* ------------------------------------------------------------ state
VARIABLES
  sampleRate,      \* the global sampleRate of the AudioWorkletGlobalScope
  engine,          \* "constructed", or "failed" when the constructor threw
  nodeParams,      \* QuadraVerbNode._params
  port,            \* messages posted by the node and not yet delivered
  params,          \* QuadraVerbProcessor.params
  fdnLines,        \* 0..7 -> FDN delay line
  fdnMatrix,       \* 0..7 -> 0..7 -> coefficient
  fdnFeedback,
  diffusionA, diffusionAR, diffusionB, diffusionBR,   \* allpass filters
  earlyDelays, earlyDelaysR,                          \* early-reflection taps
  preDelayBuffer, preDelayIndex,
  lfos,            \* 0..3 -> [phase, rate, amp]
  outputLP, outputHP, inputHP,                        \* one-pole filters
  noiseGen,
  inputs,          \* inputs[0] of the latest process() call
  outputs,         \* outputs[0] as the latest process() call left it
  ops              \* operations performed so far

signalVars ==
  <<fdnMatrix, diffusionA, diffusionAR, diffusionB, diffusionBR, earlyDelays,
    earlyDelaysR, preDelayBuffer, preDelayIndex, noiseGen, outputHP>>
vars ==
  <<sampleRate, engine, nodeParams, port, params, fdnLines, fdnMatrix, fdnFeedback,
    diffusionA, diffusionAR, diffusionB, diffusionBR, earlyDelays, earlyDelaysR,
    preDelayBuffer, preDelayIndex, lfos, outputLP, outputHP, inputHP, noiseGen,
    inputs, outputs, ops>>

safetyThreshold == 950000

\* ------------------------------------------------------------ Math.random
\* Math.random() may return any value of [0, 1); the model draws from the
\* two ends.  One draw per FDN line is taken at each recompute.
RandomLow == 0
RandomHigh == ONE - 1
RandomDraws ==
  { [i \in 0..7 |-> RandomLow],
    [i \in 0..7 |-> IF i % 2 = 0 THEN RandomHigh ELSE RandomLow] }
MatrixDraws ==
  { [i \in 0..7 |-> [j \in 0..7 |-> IF (i + j) % 3 = 0 THEN RandomHigh ELSE RandomLow]] }

\* ------------------------------------------------------------ construction
ceilDiv(a, b) == (a + b - 1) \div b

\* delayMs * 10 of this.earlyTaps, and the gains
earlyTaps ==
  [i \in 0..7 |->
     CASE i = 0 -> [delayMs10 |-> 51, gain |-> 800000]
       [] i = 1 -> [delayMs10 |-> 87, gain |-> 650000]
       [] i = 2 -> [delayMs10 |-> 123, gain |-> 550000]
       [] i = 3 -> [delayMs10 |-> 179, gain |-> 450000]
       [] i = 4 -> [delayMs10 |-> 224, gain |-> 380000]
       [] i = 5 -> [delayMs10 |-> 296, gain |-> 320000]
       [] i = 6 -> [delayMs10 |-> 358, gain |-> 250000]
       [] i = 7 -> [delayMs10 |-> 412, gain |-> 180000]]

\* Math.ceil(sr * tap.delayMs / 1000)
EarlySize(sr, tap) == ceilDiv(sr * tap.delayMs10, 10000)
\* Math.ceil(sr * (tap.delayMs * 1.07) / 1000)
EarlySizeR(sr, tap) == ceilDiv(MulDiv(sr, tap.delayMs10 * 107, 1000), 1000)

InitEarlyDelays(sr) ==
  [i \in 0..7 |->
     [buffer |-> EmptyBuffer, capacity |-> EarlySize(sr, earlyTaps[i]) + 1,
      size |-> EarlySize(sr, earlyTaps[i]), gain |-> earlyTaps[i].gain, index |-> 0]]

InitEarlyDelaysR(sr) ==
  [i \in 0..7 |->
     [buffer |-> EmptyBuffer, capacity |-> EarlySizeR(sr, earlyTaps[i]) + 1,
      size |-> EarlySizeR(sr, earlyTaps[i]),
      gain |-> Mul(earlyTaps[i].gain, 930000), index |-> 0]]

diffusionADelays == [i \in 0..3 |-> CASE i = 0 -> 142 [] i = 1 -> 107 [] i = 2 -> 379 [] i = 3 -> 277]
diffusionBDelays == [i \in 0..2 |-> CASE i = 0 -> 617 [] i = 1 -> 457 [] i = 2 -> 829]

\* an allpass filter of the given size and initial gain
InitAllpass(size, gain) ==
  [buffer |-> EmptyBuffer, capacity |-> size + 1, size |-> size, index |-> 0,
   gain |-> gain, modDepth |-> 0]

InitDiffusionA == [i \in 0..3 |-> InitAllpass(diffusionADelays[i], 700000)]
InitDiffusionAR == [i \in 0..3 |-> InitAllpass((diffusionADelays[i] * 111) \div 100, 680000)]
InitDiffusionB == [i \in 0..2 |-> InitAllpass(diffusionBDelays[i], 600000)]
InitDiffusionBR == [i \in 0..2 |-> InitAllpass((diffusionBDelays[i] * 113) \div 100, 580000)]

\* resizeFDNBuffers: a buffer shorter than the largest baseSize * 2 is regrown
FdnMaxSize == fdnBaseSizes[7] * 2
resizeFDNBuffers(capacity) == IF capacity < FdnMaxSize THEN FdnMaxSize ELSE capacity

InitFdnLines ==
  [i \in 0..7 |->
     [buffer |-> EmptyBuffer, capacity |-> resizeFDNBuffers(FdnInitialCapacity),
      size |-> fdnBaseSizes[i], baseSize |-> fdnBaseSizes[i], index |-> 0,
      dampCoeff |-> 900000, dampState |-> 0, hpCoeff |-> 50000, hpState |-> 0,
      modDepth |-> 0]]

\* popCount(i & j) & 1 for i, j in 0..7
AndParity(i, j) ==
  ((i % 2) * (j % 2) + ((i \div 2) % 2) * ((j \div 2) % 2) + (i \div 4) * (j \div 4)) % 2

\* 1 / Math.sqrt(8)
HadamardScale == 353553

createHadamardMatrix(rnd) ==
  [i \in 0..7 |-> [j \in 0..7 |->
     Mul((IF AndParity(i, j) = 1 THEN 0 - 1 ELSE 1) * HadamardScale,
         950000 + Mul(rnd[i][j], 100000))]]

InitLfos ==
  [i \in 0..3 |->
     CASE i = 0 -> [phase |-> 0, rate |-> 370000, amp |-> ONE]
       [] i = 1 -> [phase |-> HALF_PI, rate |-> 530000, amp |-> 800000]
       [] i = 2 -> [phase |-> PI, rate |-> 710000, amp |-> 900000]
       [] i = 3 -> [phase |-> PI + HALF_PI, rate |-> 290000, amp |-> 700000]]

\* ------------------------------------------------------------ updateInternalParams
\* MappedLines that also rewinds the write index of a resized line
MappedLinesRewind(lines, p, sr, draws) ==
  LET mode == ModePreset(p)
      dampCoeff == Mul(onePoleCoeff(p.highCutHz, sr), mode.dampBase)
      hpCoeff == Mul(onePoleCoeff(p.lowCutHz, sr), mode.hpBase)
      modDepth == Mul(p.modDepth, 500000)
  IN  [i \in 0..7 |->
        [lines[i] EXCEPT !.size = LineSize(lines[i].baseSize, p),
                         !.index = 0,
                         !.dampCoeff = DampJitter(dampCoeff, draws[i]),
                         !.hpCoeff = hpCoeff,
                         !.modDepth = modDepth * 5]]

MappedLines(lines, p, sr, draws) ==
  LET mode == ModePreset(p)
      dampCoeff == Mul(onePoleCoeff(p.highCutHz, sr), mode.dampBase)
      hpCoeff == Mul(onePoleCoeff(p.lowCutHz, sr), mode.hpBase)
      modDepth == Mul(p.modDepth, 500000)
  IN  [i \in 0..7 |->
        [lines[i] EXCEPT !.size = LineSize(lines[i].baseSize, p),
                         !.dampCoeff = DampJitter(dampCoeff, draws[i]),
                         !.hpCoeff = hpCoeff,
                         !.modDepth = modDepth * 5]]

\* MappedAllpass that scales the gain in place instead of setting it
MappedAllpassCompounding(apfs, p, gainScale, depthScale) ==
  LET diffGain == Mul(p.diffusion, ModePreset(p).diffGain)
      modDepth == Mul(p.modDepth, 500000)
  IN  [i \in DOMAIN apfs |->
        [apfs[i] EXCEPT !.gain = Mul(apfs[i].gain, diffGain),
                        !.modDepth = modDepth * depthScale]]

MappedAllpass(apfs, p, gainScale, depthScale) ==
  LET diffGain == Mul(p.diffusion, ModePreset(p).diffGain)
      modDepth == Mul(p.modDepth, 500000)
  IN  [i \in DOMAIN apfs |->
        [apfs[i] EXCEPT !.gain = Mul(diffGain, gainScale),
                        !.modDepth = modDepth * depthScale]]

MappedFeedback(lines, p, sr) == feedbackGain(avgDelaySeconds(lines, sr), targetRT60(p))

\* updateInternalParams that returns before the feedback gain is written
updateInternalParamsTorn(p, draws) ==
  LET lines == MappedLines(fdnLines, p, sampleRate, draws)
  IN  /\ fdnLines' = lines
      /\ diffusionA' = MappedAllpass(diffusionA, p, 700000, 2)
      /\ diffusionAR' = MappedAllpass(diffusionAR, p, 680000, 2)
      /\ diffusionB' = MappedAllpass(diffusionB, p, 600000, 3)
      /\ diffusionBR' = MappedAllpass(diffusionBR, p, 580000, 3)
      /\ fdnFeedback' = fdnFeedback
      /\ inputHP' = [inputHP EXCEPT !.coeff = Mul(onePoleCoeff(p.lowCutHz, sampleRate), 50000)]
      /\ lfos' = [i \in 0..3 |-> [lfos[i] EXCEPT !.rate = LfoRate(p, i)]]
      /\ outputLP' = [outputLP EXCEPT !.coeff = onePoleCoeff(ColorCutoff(p), sampleRate)]

updateInternalParams(p, draws) ==
  LET lines == MappedLines(fdnLines, p, sampleRate, draws)
  IN  /\ fdnLines' = lines
      /\ diffusionA' = MappedAllpass(diffusionA, p, 700000, 2)
      /\ diffusionAR' = MappedAllpass(diffusionAR, p, 680000, 2)
      /\ diffusionB' = MappedAllpass(diffusionB, p, 600000, 3)
      /\ diffusionBR' = MappedAllpass(diffusionBR, p, 580000, 3)
      /\ fdnFeedback' = MappedFeedback(lines, p, sampleRate)
      /\ inputHP' = [inputHP EXCEPT !.coeff = Mul(onePoleCoeff(p.lowCutHz, sampleRate), 50000)]
      /\ lfos' = [i \in 0..3 |-> [lfos[i] EXCEPT !.rate = LfoRate(p, i)]]
      /\ outputLP' = [outputLP EXCEPT !.coeff = onePoleCoeff(ColorCutoff(p), sampleRate)]


\* ------------------------------------------------------------ messages
\* ObjectAssign that resets the fields the source does not name
ObjectAssignReplace(target, source) ==
  [f \in (DOMAIN target) \cup (DOMAIN source) |->
     IF f \in DOMAIN source THEN source[f] ELSE DefaultParams[f]]

\* Object.assign(target, source)
ObjectAssign(target, source) ==
  [f \in (DOMAIN target) \cup (DOMAIN source) |->
     IF f \in DOMAIN source THEN source[f] ELSE target[f]]

UpdateMessage(record) == [type |-> "updateParams", params |-> record]

\* the range each setter of the node clamps its value to
ClampRange(f) ==
  CASE f = "preDelayMs" -> [lo |-> 0, hi |-> 200 * ONE]
    [] f = "decay" -> [lo |-> 100000, hi |-> 30 * ONE]
    [] f = "lowCutHz" -> [lo |-> 20, hi |-> 1000]
    [] f = "highCutHz" -> [lo |-> 500, hi |-> 20000]
    [] f = "mode" -> [lo |-> 0, hi |-> 3]
    [] OTHER -> [lo |-> 0, hi |-> ONE]

\* Math.max(lo, Math.min(hi, value))
Clamp(f, value) ==
  LET r == ClampRange(f)
  IN  IF value < r.lo THEN r.lo ELSE IF value > r.hi THEN r.hi ELSE value

\* the presets of loadPreset that the model loads
Presets ==
  [n \in {"small-room", "ambient-wash"} |->
     CASE n = "small-room" ->
            [mix |-> 300000, preDelayMs |-> 5 * ONE, decay |-> 1200000, size |-> 300000,
             diffusion |-> 600000, lowCutHz |-> 150, highCutHz |-> 8000, color |-> 600000,
             modRate |-> 300000, modDepth |-> 200000, stereoWidth |-> 700000,
             vintage |-> 200000, mode |-> 2]
       [] n = "ambient-wash" ->
            [mix |-> 600000, preDelayMs |-> 40 * ONE, decay |-> 8 * ONE, size |-> 950000,
             diffusion |-> 850000, lowCutHz |-> 60, highCutHz |-> 5000, color |-> 350000,
             modRate |-> 300000, modDepth |-> 450000, stereoWidth |-> 950000,
             vintage |-> 350000, mode |-> 3]]

\* the calls the model makes on the node
SetterCalls ==
  { <<"mix", 0 - ONE>>, <<"mode", 3>>, <<"decay", 0>> }
BulkUpdates ==
  { [decay |-> 0], [decay |-> 0 - ONE, vintage |-> 0] }
PresetNames == {"small-room"}

\* ------------------------------------------------------------ node wrapper
\* set <field>(value): clamp, store, post the one field
NodeSet(f, value) ==
  /\ ops < MaxOps
  /\ nodeParams' = [nodeParams EXCEPT ![f] = Clamp(f, value)]
  /\ port' = Append(port, UpdateMessage([g \in {f} |-> Clamp(f, value)]))
  /\ ops' = ops + 1
  /\ UNCHANGED <<sampleRate, engine, params, fdnLines, fdnFeedback, lfos, outputLP,
                 inputHP, inputs, outputs>>
  /\ UNCHANGED signalVars

\* updateParameters(params): post the record as given
NodeUpdateParameters(record) ==
  /\ ops < MaxOps
  /\ port' = Append(port, UpdateMessage(record))
  /\ ops' = ops + 1
  /\ UNCHANGED <<sampleRate, engine, nodeParams, params, fdnLines, fdnFeedback, lfos,
                 outputLP, inputHP, inputs, outputs>>
  /\ UNCHANGED signalVars

\* loadPreset(name): merge the preset into _params and post all of _params
NodeLoadPreset(name) ==
  /\ ops < MaxOps
  /\ nodeParams' = ObjectAssign(nodeParams, Presets[name])
  /\ port' = Append(port, UpdateMessage(ObjectAssign(nodeParams, Presets[name])))
  /\ ops' = ops + 1
  /\ UNCHANGED <<sampleRate, engine, params, fdnLines, fdnFeedback, lfos, outputLP,
                 inputHP, inputs, outputs>>
  /\ UNCHANGED signalVars

\* ------------------------------------------------------------ port.onmessage
OnMessage ==
  /\ engine = "constructed"
  /\ port # << >>
  /\ port' = Tail(port)
  /\ IF Head(port).type = "updateParams"
       THEN /\ params' = ObjectAssign(params, Head(port).params)
            /\ \E draws \in RandomDraws :
                 updateInternalParams(ObjectAssign(params, Head(port).params), draws)
       ELSE UNCHANGED <<params, fdnLines, diffusionA, diffusionAR, diffusionB,
                        diffusionBR, fdnFeedback, inputHP, lfos, outputLP>>
  /\ UNCHANGED <<sampleRate, engine, nodeParams, fdnMatrix, earlyDelays, earlyDelaysR,
                 preDelayBuffer, preDelayIndex, outputHP, noiseGen, inputs,
                 outputs, ops>>

\* ------------------------------------------------------------ initial state
SampleRates == {48000}

\* The processor has run its constructor (defaults, buffers, matrix, the
\* initial updateInternalParams); the node has run its own and its first
\* message, all of _params, is in the port.
Init ==
  /\ sampleRate \in SampleRates
  /\ engine = "constructed"
  /\ nodeParams = DefaultParams
  /\ port = << UpdateMessage(DefaultParams) >>
  /\ params = DefaultParams
  /\ \E draws \in RandomDraws :
       /\ fdnLines = MappedLines(InitFdnLines, DefaultParams, sampleRate, draws)
       /\ fdnFeedback = MappedFeedback(fdnLines, DefaultParams, sampleRate)
  /\ \E rnd \in MatrixDraws : fdnMatrix = createHadamardMatrix(rnd)
  /\ diffusionA = MappedAllpass(InitDiffusionA, DefaultParams, 700000, 2)
  /\ diffusionAR = MappedAllpass(InitDiffusionAR, DefaultParams, 680000, 2)
  /\ diffusionB = MappedAllpass(InitDiffusionB, DefaultParams, 600000, 3)
  /\ diffusionBR = MappedAllpass(InitDiffusionBR, DefaultParams, 580000, 3)
  /\ earlyDelays = InitEarlyDelays(sampleRate)
  /\ earlyDelaysR = InitEarlyDelaysR(sampleRate)
  /\ preDelayBuffer = EmptyBuffer
  /\ preDelayIndex = 0
  /\ lfos = [i \in 0..3 |-> [InitLfos[i] EXCEPT !.rate = LfoRate(DefaultParams, i)]]
  /\ outputLP = [coeff |-> onePoleCoeff(ColorCutoff(DefaultParams), sampleRate),
                 stateL |-> 0, stateR |-> 0]
  /\ outputHP = [coeff |-> 50000, stateL |-> 0, stateR |-> 0]
  /\ inputHP = [coeff |-> Mul(onePoleCoeff(DefaultParams.lowCutHz, sampleRate), 50000),
                stateL |-> 0, stateR |-> 0]
  /\ noiseGen = 0
  /\ inputs = << >>
  /\ outputs = << << >>, << >> >>
  /\ ops = 0

\* ------------------------------------------------------------ per-sample helpers
\* processOnePoleLP
processOnePoleLP(coeff, state, input) == Add(state, Mul(coeff, Sub(input, state)))

\* processOnePoleHP
processOnePoleHP(coeff, state, input) ==
  LET output == Sub(input, state)
  IN  [output |-> output, state |-> Add(state, Mul(coeff, output))]

\* softClip, threshold 1.5, knee 0.5
softClip(x) ==
  LET threshold == 1500000
      over == Sub(x, threshold)
      under == Add(x, threshold)
  IN  IF Gt(x, threshold)
        THEN Add(threshold, Div(over, ONE + Mul(2 * over, 2 * over)))
      ELSE IF Gt(0 - threshold, x)
        THEN Sub(Div(under, ONE + Mul(2 * under, 2 * under)), threshold)
      ELSE x

\* x % n as JavaScript computes it: the sign of the dividend
JsRem(x, n) == IF x < 0 THEN 0 - ((0 - x) % n) ELSE x % n

\* the interpolated read at readPos = index - size - modAmount:
\* readIdx = Math.floor(readPos), frac = readPos - readIdx
FractionalRead(buffer, capacity, index, size, modAmount) ==
  LET readIdx == (index - size) + ((0 - modAmount) \div ONE)
      frac == (0 - modAmount) % ONE
      idx1 == JsRem(JsRem(readIdx, size) + size, size)
      idx2 == JsRem(JsRem(readIdx + 1, size) + size, size)
  IN  Add(Mul(BufRead(buffer, capacity, idx1), ONE - frac),
          Mul(BufRead(buffer, capacity, idx2), frac))

\* processAllpass: the filter after the sample, and the sample it returns
processAllpass(apf, input, lfoValue) ==
  LET modAmount == Mul(apf.modDepth, lfoValue)
      delayed == FractionalRead(apf.buffer, apf.capacity, apf.index, apf.size, modAmount)
      output == Add(Add(Mul(0 - apf.gain, input), delayed),
                    Mul(apf.gain, Sub(input, Mul(apf.gain, delayed))))
  IN  [apf |-> [apf EXCEPT !.buffer = BufWrite(apf.buffer, apf.capacity, apf.index,
                                               Add(input, Mul(apf.gain, delayed))),
                           !.index = (apf.index + 1) % apf.size],
       output |-> output]

\* a bank of allpass filters in series, filter i modulated by lfoOf[i]
RECURSIVE AllpassChain(_, _, _, _)
AllpassNext(apfs, i, r, lfoOf) ==
  Strict(r, AllpassChain([apfs EXCEPT ![i] = r.apf], i + 1, r.output, lfoOf))

AllpassChain(apfs, i, input, lfoOf) ==
  IF i \notin DOMAIN apfs THEN [apfs |-> apfs, output |-> input]
  ELSE AllpassNext(apfs, i, processAllpass(apfs[i], input, lfoOf[i]), lfoOf)

\* one bank of early-reflection taps fed with preDelayed
RECURSIVE EarlySum(_, _)
EarlySum(delays, i) ==
  IF i > 7 THEN 0
  ELSE Add(Mul(BufRead(delays[i].buffer, delays[i].capacity,
                       (delays[i].index - delays[i].size + delays[i].capacity)
                         % delays[i].capacity),
               delays[i].gain),
           EarlySum(delays, i + 1))

EarlyWrite(delays, preDelayed) ==
  [i \in 0..7 |->
     [delays[i] EXCEPT !.buffer = BufWrite(delays[i].buffer, delays[i].capacity,
                                           delays[i].index, preDelayed),
                       !.index = (delays[i].index + 1) % delays[i].capacity]]

\* ------------------------------------------------------------ getVintageNoise
\* noiseGen * 1103515245 + 12345 is evaluated in doubles: the product and
\* the sum are each rounded to 53 significant bits (ties to even) before
\* & 0x7fffffff keeps the low 31 bits.  Numbers are sequences of base-2^14
\* limbs, least significant first.
LimbBase == 16384
LcgMultiplier == <<1103515245 % 16384, (1103515245 \div 16384) % 16384, 1103515245 \div 268435456>>

RECURSIVE Normalize(_, _, _)
Normalize(c, i, carry) ==
  IF i > Len(c) THEN << >>
  ELSE <<(c[i] + carry) % LimbBase>> \o Normalize(c, i + 1, (c[i] + carry) \div LimbBase)

RECURSIVE BitLen(_)
BitLen(x) == IF x = 0 THEN 0 ELSE 1 + BitLen(x \div 2)

RECURSIVE LimbsBitLen(_, _)
LimbsBitLen(l, i) ==
  IF i = 0 THEN 0
  ELSE IF l[i] # 0 THEN 14 * (i - 1) + BitLen(l[i])
  ELSE LimbsBitLen(l, i - 1)

RECURSIVE Pow2(_)
Pow2(k) == IF k = 0 THEN 1 ELSE 2 * Pow2(k - 1)

\* round a 5-limb integer to a double
RoundDouble(l) ==
  LET len == LimbsBitLen(l, 5)
      unit == Pow2(len - 53)
      low == l[1] % unit
      up == low * 2 > unit \/ (low * 2 = unit /\ (l[1] \div unit) % 2 = 1)
  IN  IF len <= 53 THEN l
      ELSE Normalize([l EXCEPT ![1] = l[1] - low + (IF up THEN unit ELSE 0)], 1, 0)

LcgNext(n) ==
  LET a == <<n % LimbBase, (n \div LimbBase) % LimbBase, n \div (LimbBase * LimbBase)>>
      m == LcgMultiplier
      product == Normalize(<<a[1] * m[1],
                             a[1] * m[2] + a[2] * m[1],
                             a[1] * m[3] + a[2] * m[2] + a[3] * m[1],
                             a[2] * m[3] + a[3] * m[2],
                             a[3] * m[3]>>, 1, 0)
      rounded == RoundDouble(product)
      sum == RoundDouble(Normalize([rounded EXCEPT ![1] = rounded[1] + 12345], 1, 0))
  IN  sum[1] + sum[2] * LimbBase + (sum[3] % 8) * LimbBase * LimbBase

\* ((noiseGen / 0x7fffffff) - 0.5) * 0.00001 for the stepped noiseGen
NoiseValue(n) == Mul(MulDiv(n \div 64, ONE, 33554432) - 500000, 10)

\* ------------------------------------------------------------ process: one sample
\* Math.floor((p.preDelayMs / 1000) * sr)
preDelayTime(p, sr) == MulDiv(p.preDelayMs \div 1000, sr, ONE)

\* the matrix row applied to the eight delayed values
RECURSIVE MatrixRow(_, _, _)
MatrixRow(row, fdnOutputs, col) ==
  IF col > 7 THEN 0
  ELSE Add(Mul(row[col], fdnOutputs[col]), MatrixRow(row, fdnOutputs, col + 1))

\* noiseGen before and after each of k calls of getVintageNoise:
\* <<gen, step(gen), step(step(gen)), ...>>
RECURSIVE LcgIterate(_, _)
LcgIterate(gens, k) ==
  IF k = 0 THEN gens
  ELSE Strict(gens, LcgIterate(Append(gens, LcgNext(gens[Len(gens)])), k - 1))

\* The write-back loop over the FDN lines.  noiseGen is stepped once per
\* line when p.vintage > 0, so line idx is written with the noise of the
\* (idx + 1)-th step.
FdnWriteBackLine(line, idx, gen, matrixOut, fdnInput, feedbackG, p) ==
  LET fb0 == Mul(matrixOut[idx], feedbackG)
      fb1 == IF idx < 4 THEN Add(fb0, Mul(fdnInput, 500000)) ELSE fb0
      dampState == processOnePoleLP(line.dampCoeff, line.dampState, fb1)
      hp == processOnePoleHP(line.hpCoeff, line.hpState, dampState)
      clipped == Mul(softClip(Mul(hp.output, 1200000)), 900000)
      feedback == IF p.vintage > 0
                    THEN Add(clipped, Mul(NoiseValue(gen[idx + 2]), p.vintage))
                    ELSE clipped
  IN  [line EXCEPT !.dampState = dampState,
                   !.hpState = hp.state,
                   !.buffer = BufWrite(line.buffer, line.capacity, line.index, feedback),
                   !.index = (line.index + 1) % line.size]

FdnWriteBackWith(lines, gen, matrixOut, fdnInput, feedbackG, p) ==
  [lines |-> [idx \in 0..7 |->
                FdnWriteBackLine(lines[idx], idx, gen, matrixOut, fdnInput, feedbackG, p)],
   noiseGen |-> IF p.vintage > 0 THEN gen[9] ELSE gen[1]]

FdnWriteBack(lines, noise, matrixOut, fdnInput, feedbackG, p) ==
  FdnWriteBackWith(lines, LcgIterate(<<noise>>, 8), matrixOut, fdnInput, feedbackG, p)

\* Math.max(-1, Math.min(1, x))
FinalClip(x) == MathMax(0 - ONE, MathMin(ONE, x))

\* this.maxPreDelay = Math.floor(sr * 0.2)
maxPreDelay(sr) == sr \div 5

\* The sample loop's body up to the early reflections: the input highpass
\* (its results replace inL and inR), the pre-delay read, the two early sums.
SampleInput(st, sampleL, sampleR, p, sr) ==
  [hpL |-> processOnePoleHP(st.inputHP.coeff, st.inputHP.stateL, sampleL),
   hpR |-> processOnePoleHP(st.inputHP.coeff, st.inputHP.stateR, sampleR),
   preDelayed |-> BufRead(st.preDelayBuffer, maxPreDelay(sr),
                          JsRem(st.preDelayIndex - preDelayTime(p, sr) + maxPreDelay(sr),
                                maxPreDelay(sr))),
   earlyL |-> EarlySum(st.earlyDelays, 0),
   earlyR |-> EarlySum(st.earlyDelaysR, 0)]

\* the B bank of one side, fed with the output of its A bank
DiffuseB(chainA, apfsB, lfoB) ==
  [a |-> chainA.apfs, chain |-> AllpassChain(apfsB, 0, chainA.output, lfoB)]

\* one side of the diffusion network: the A bank, then the B bank
Diffuse(apfsA, apfsB, input, lfoA, lfoB) ==
  DiffuseB(AllpassChain(apfsA, 0, input, lfoA), apfsB, lfoB)

\* the modulated read of each FDN line
FdnRead(lines, lfo) ==
  [i \in 0..7 |->
     FractionalRead(lines[i].buffer, lines[i].capacity, lines[i].index, lines[i].size,
                    Mul(lines[i].modDepth, lfo[i % 4]))]

\* output taps, early reflections, stereo width
WetTaps(fdnOutputs, earlyL, earlyR) ==
  [L |-> Add(Mul(Add(Add(fdnOutputs[0], fdnOutputs[2]), Add(fdnOutputs[4], fdnOutputs[6])),
                 250000),
             Mul(earlyL, 300000)),
   R |-> Add(Mul(Add(Add(fdnOutputs[1], fdnOutputs[3]), Add(fdnOutputs[5], fdnOutputs[7])),
                 250000),
             Mul(earlyR, 300000))]

\* mid/side widening, then the colour filter: the new outputLP states
ColorFilter(lp, tap, width) ==
  [L |-> processOnePoleLP(lp.coeff, lp.stateL,
                          Add(Mul(Add(tap.L, tap.R), 500000),
                              Mul(Mul(Sub(tap.L, tap.R), 500000), width))),
   R |-> processOnePoleLP(lp.coeff, lp.stateR,
                          Sub(Mul(Add(tap.L, tap.R), 500000),
                              Mul(Mul(Sub(tap.L, tap.R), 500000), width)))]

\* safety limiting of one channel against the peak of both
Limit(x, wetPeak) ==
  IF Gt(wetPeak, safetyThreshold) THEN Mul(x, Div(safetyThreshold, wetPeak)) ELSE x

\* the end of the sample loop's body: the fields written and the two
\* output samples
SampleOut(st, in, difL, difR, written, lp, preSample, sr, p) ==
  [st |->
     [inputHP |-> [st.inputHP EXCEPT !.stateL = in.hpL.state, !.stateR = in.hpR.state],
      preDelayBuffer |-> BufWrite(st.preDelayBuffer, maxPreDelay(sr), st.preDelayIndex,
                                  preSample),
      preDelayIndex |-> (st.preDelayIndex + 1) % maxPreDelay(sr),
      earlyDelays |-> EarlyWrite(st.earlyDelays, in.preDelayed),
      earlyDelaysR |-> EarlyWrite(st.earlyDelaysR, in.preDelayed),
      diffusionA |-> difL.a,
      diffusionAR |-> difR.a,
      diffusionB |-> difL.chain.apfs,
      diffusionBR |-> difR.chain.apfs,
      fdnLines |-> written.lines,
      noiseGen |-> written.noiseGen,
      outputLP |-> [st.outputLP EXCEPT !.stateL = lp.L, !.stateR = lp.R]],
   outL |-> FinalClip(Add(Mul(in.hpL.output, ONE - p.mix),
                          Mul(Limit(lp.L, MathMax(MathAbs(lp.L), MathAbs(lp.R))), p.mix))),
   outR |-> FinalClip(Add(Mul(in.hpR.output, ONE - p.mix),
                          Mul(Limit(lp.R, MathMax(MathAbs(lp.L), MathAbs(lp.R))), p.mix)))]

\* the FDN part of the body: matrix, write-back, taps and colour filter
SampleFdn(st, in, difL, difR, fdnOutputs, p, matrix, feedbackG, sr) ==
  SampleOut(st, in, difL, difR,
            FdnWriteBack(st.fdnLines, st.noiseGen,
                         [row \in 0..7 |-> MatrixRow(matrix[row], fdnOutputs, 0)],
                         Mul(Add(difL.chain.output, difR.chain.output), 500000),
                         feedbackG, p),
            ColorFilter(st.outputLP, WetTaps(fdnOutputs, in.earlyL, in.earlyR),
                        p.stereoWidth),
            Mul(Add(in.hpL.output, in.hpR.output), 500000), sr, p)

\* the diffusion part of the body, and the FDN reads
SampleWet(st, in, p, lfo, matrix, feedbackG, sr) ==
  SampleFdn(st, in,
            Diffuse(st.diffusionA, st.diffusionB,
                    Add(in.preDelayed, Mul(in.earlyL, 500000)),
                    [i \in 0..3 |-> lfo[i]], [i \in 0..2 |-> lfo[(i + 2) % 4]]),
            Diffuse(st.diffusionAR, st.diffusionBR,
                    Add(in.preDelayed, Mul(in.earlyR, 500000)),
                    [i \in 0..3 |-> lfo[(i + 1) % 4]], [i \in 0..2 |-> lfo[(i + 3) % 4]]),
            FdnRead(st.fdnLines, lfo), p, matrix, feedbackG, sr)

\* The body of the sample loop.  st holds the fields of the processor the
\* loop writes; lfo holds the four LFO values of the block.
ProcessSample(st, sampleL, sampleR, p, lfo, matrix, feedbackG, sr) ==
  SampleWet(st, SampleInput(st, sampleL, sampleR, p, sr), p, lfo, matrix, feedbackG, sr)

\* ------------------------------------------------------------ process: one block
\* the loop's variables after one more sample
Accumulate(acc, r) ==
  [st |-> r.st, outL |-> Append(acc.outL, r.outL), outR |-> Append(acc.outR, r.outR)]

\* The sample loop over frames lo..hi of the block, in order.  The range is
\* walked by halves (frames lo..mid, then mid+1..hi on what they left), so
\* that a long block does not nest one evaluation per frame.
RECURSIVE SampleLoop(_, _, _, _, _, _, _, _, _, _)
SampleLoopRest(acc, inputL, inputR, lo, hi, p, lfo, matrix, feedbackG, sr) ==
  Strict(acc, SampleLoop(acc, inputL, inputR, lo, hi, p, lfo, matrix, feedbackG, sr))

SampleLoop(acc, inputL, inputR, lo, hi, p, lfo, matrix, feedbackG, sr) ==
  IF lo > hi THEN acc
  ELSE IF lo = hi
    THEN Accumulate(acc, ProcessSample(acc.st, inputL[lo], inputR[lo], p, lfo, matrix,
                                       feedbackG, sr))
  ELSE SampleLoopRest(SampleLoop(acc, inputL, inputR, lo, (lo + hi) \div 2, p, lfo,
                                 matrix, feedbackG, sr),
                      inputL, inputR, (lo + hi) \div 2 + 1, hi, p, lfo, matrix,
                      feedbackG, sr)

\* AdvanceLfos that advances by a whole render quantum whatever the block
AdvanceLfosQuantum(ls, blockSize) ==
  [i \in 0..3 |->
     [ls[i] EXCEPT !.phase = IF ls[i].phase + ls[i].rate * 128 > TWO_PI
                               THEN ls[i].phase + ls[i].rate * 128 - TWO_PI
                               ELSE ls[i].phase + ls[i].rate * 128]]

\* lfo.phase += lfo.rate * blockSize; one wrap by 2 pi
AdvanceLfos(ls, blockSize) ==
  [i \in 0..3 |->
     [ls[i] EXCEPT !.phase = IF ls[i].phase + ls[i].rate * blockSize > TWO_PI
                               THEN ls[i].phase + ls[i].rate * blockSize - TWO_PI
                               ELSE ls[i].phase + ls[i].rate * blockSize]]

LfoValues(ls) == [i \in 0..3 |-> Mul(MathSin(ls[i].phase), ls[i].amp)]

\* the blocks the host hands to process(): no channel at all, an empty
\* channel, one channel, two channels
SilentInputs == { << >>, << << >> >>, << << >>, << >> >> }
SoundingInputs ==
  { << <<ONE>> >>,
    << <<ONE, ONE>>, <<ONE, 0 - 500000>> >> }
InputBlocks == SilentInputs \cup SoundingInputs

\* the fields process() has written when the sample loop ends with r
ProcessWrite(r) ==
  /\ outputs' = << r.outL, r.outR >>
  /\ inputHP' = r.st.inputHP
  /\ preDelayBuffer' = r.st.preDelayBuffer
  /\ preDelayIndex' = r.st.preDelayIndex
  /\ earlyDelays' = r.st.earlyDelays
  /\ earlyDelaysR' = r.st.earlyDelaysR
  /\ diffusionA' = r.st.diffusionA
  /\ diffusionAR' = r.st.diffusionAR
  /\ diffusionB' = r.st.diffusionB
  /\ diffusionBR' = r.st.diffusionBR
  /\ fdnLines' = r.st.fdnLines
  /\ noiseGen' = r.st.noiseGen
  /\ outputLP' = r.st.outputLP

\* process() past its guard: the LFO update, then the sample loop
ProcessBlock(inputL, inputR, advanced) ==
  /\ lfos' = advanced
  /\ ProcessWrite(
       SampleLoop([st |-> [inputHP |-> inputHP, preDelayBuffer |-> preDelayBuffer,
                           preDelayIndex |-> preDelayIndex, earlyDelays |-> earlyDelays,
                           earlyDelaysR |-> earlyDelaysR, diffusionA |-> diffusionA,
                           diffusionAR |-> diffusionAR, diffusionB |-> diffusionB,
                           diffusionBR |-> diffusionBR, fdnLines |-> fdnLines,
                           noiseGen |-> noiseGen, outputLP |-> outputLP],
                   outL |-> << >>, outR |-> << >>],
                  inputL, inputR, 1, Len(inputL), params, LfoValues(advanced),
                  fdnMatrix, fdnFeedback, sampleRate))

\* process(inputs, outputs): input = inputs[0]
Process(input) ==
  /\ engine = "constructed"
  /\ ops < MaxOps
  /\ ops' = ops + 1
  /\ inputs' = input
  /\ IF input = << >>
       THEN \* !input || !input[0]: return true
            /\ outputs' = << << >>, << >> >>
            /\ UNCHANGED <<fdnLines, diffusionA, diffusionAR, diffusionB, diffusionBR,
                           earlyDelays, earlyDelaysR, preDelayBuffer, preDelayIndex,
                           lfos, outputLP, inputHP, noiseGen>>
       ELSE ProcessBlock(input[1], IF Len(input) > 1 THEN input[2] ELSE input[1],
                         AdvanceLfos(lfos, Len(input[1])))
  /\ UNCHANGED <<sampleRate, engine, nodeParams, port, params, fdnMatrix, fdnFeedback,
                 outputHP>>

NextNoProcess ==
  \/ \E c \in SetterCalls : NodeSet(c[1], c[2])
  \/ \E r \in BulkUpdates : NodeUpdateParameters(r)
  \/ \E n \in PresetNames : NodeLoadPreset(n)
  \/ OnMessage

Next ==
  \/ NextNoProcess
  \/ \E input \in InputBlocks : Process(input)

Spec == Init /\ [][Next]_vars


\* ------------------------------------------------------------ mapper over the parameter range
\* new QuadraVerbNode(context, options): options override the defaults and
\* the whole record is the first message.  SpecMapper starts from every
\* options record of a grid over decay, size and mode and runs the node
\* calls and the message handler, without audio.
OptionDecays == {1, 100000, 2 * ONE, 30 * ONE}
OptionSizes == {0, 500000, ONE}
NodeOptions ==
  { [decay |-> d, size |-> z, mode |-> m] : d \in OptionDecays, z \in OptionSizes, m \in 0..3 }

InitMapper ==
  /\ sampleRate \in SampleRates
  /\ engine = "constructed"
  /\ \E options \in NodeOptions :
       /\ nodeParams = ObjectAssign(DefaultParams, options)
       /\ port = << UpdateMessage(ObjectAssign(DefaultParams, options)) >>
  /\ params = DefaultParams
  /\ \E draws \in RandomDraws :
       /\ fdnLines = MappedLines(InitFdnLines, DefaultParams, sampleRate, draws)
       /\ fdnFeedback = MappedFeedback(fdnLines, DefaultParams, sampleRate)
  /\ \E rnd \in MatrixDraws : fdnMatrix = createHadamardMatrix(rnd)
  /\ diffusionA = MappedAllpass(InitDiffusionA, DefaultParams, 700000, 2)
  /\ diffusionAR = MappedAllpass(InitDiffusionAR, DefaultParams, 680000, 2)
  /\ diffusionB = MappedAllpass(InitDiffusionB, DefaultParams, 600000, 3)
  /\ diffusionBR = MappedAllpass(InitDiffusionBR, DefaultParams, 580000, 3)
  /\ earlyDelays = InitEarlyDelays(sampleRate)
  /\ earlyDelaysR = InitEarlyDelaysR(sampleRate)
  /\ preDelayBuffer = EmptyBuffer
  /\ preDelayIndex = 0
  /\ lfos = [i \in 0..3 |-> [InitLfos[i] EXCEPT !.rate = LfoRate(DefaultParams, i)]]
  /\ outputLP = [coeff |-> onePoleCoeff(ColorCutoff(DefaultParams), sampleRate),
                 stateL |-> 0, stateR |-> 0]
  /\ outputHP = [coeff |-> 50000, stateL |-> 0, stateR |-> 0]
  /\ inputHP = [coeff |-> Mul(onePoleCoeff(DefaultParams.lowCutHz, sampleRate), 50000),
                stateL |-> 0, stateR |-> 0]
  /\ noiseGen = 0
  /\ inputs = << >>
  /\ outputs = << << >>, << >> >>
  /\ ops = 0

SpecMapper == InitMapper /\ [][NextNoProcess]_vars

\* ------------------------------------------------------------ construction over sample rates
\* new Float32Array(length) throws a RangeError for a negative length
Float32ArrayThrows(length) == length < 0

\* initializeBuffers allocates the pre-delay buffer first, then the early
\* reflection buffers; the other buffers have constant lengths
ConstructorThrows(sr) ==
  \/ Float32ArrayThrows(maxPreDelay(sr))
  \/ \E i \in 0..7 : Float32ArrayThrows(EarlySize(sr, earlyTaps[i]) + 1)

\* the values of sampleRate the constructor is run under
ConstructRates == {0 - 48000, 0 - 1, 0, 1, 8000, 48000}

\* The constructor has run under each of ConstructRates.  When it threw,
\* only this.params was assigned and no message handler is installed; the
\* node's first message stays in the port.
InitConstruct ==
  /\ sampleRate \in ConstructRates
  /\ nodeParams = DefaultParams
  /\ port = << UpdateMessage(DefaultParams) >>
  /\ params = DefaultParams
  /\ preDelayBuffer = EmptyBuffer
  /\ preDelayIndex = 0
  /\ noiseGen = 0
  /\ inputs = << >>
  /\ outputs = << << >>, << >> >>
  /\ ops = 0
  /\ IF ConstructorThrows(sampleRate)
       THEN /\ engine = "failed"
            /\ fdnLines = << >>
            /\ fdnFeedback = 0
            /\ fdnMatrix = << >>
            /\ diffusionA = << >>
            /\ diffusionAR = << >>
            /\ diffusionB = << >>
            /\ diffusionBR = << >>
            /\ earlyDelays = << >>
            /\ earlyDelaysR = << >>
            /\ lfos = << >>
            /\ outputLP = << >>
            /\ outputHP = << >>
            /\ inputHP = << >>
       ELSE /\ engine = "constructed"
            /\ \E draws \in RandomDraws :
                 /\ fdnLines = MappedLines(InitFdnLines, DefaultParams, sampleRate, draws)
                 /\ fdnFeedback = MappedFeedback(fdnLines, DefaultParams, sampleRate)
            /\ \E rnd \in MatrixDraws : fdnMatrix = createHadamardMatrix(rnd)
            /\ diffusionA = MappedAllpass(InitDiffusionA, DefaultParams, 700000, 2)
            /\ diffusionAR = MappedAllpass(InitDiffusionAR, DefaultParams, 680000, 2)
            /\ diffusionB = MappedAllpass(InitDiffusionB, DefaultParams, 600000, 3)
            /\ diffusionBR = MappedAllpass(InitDiffusionBR, DefaultParams, 580000, 3)
            /\ earlyDelays = InitEarlyDelays(sampleRate)
            /\ earlyDelaysR = InitEarlyDelaysR(sampleRate)
            /\ lfos = [i \in 0..3 |-> [InitLfos[i] EXCEPT !.rate = LfoRate(DefaultParams, i)]]
            /\ outputLP = [coeff |-> onePoleCoeff(ColorCutoff(DefaultParams), sampleRate),
                           stateL |-> 0, stateR |-> 0]
            /\ outputHP = [coeff |-> 50000, stateL |-> 0, stateR |-> 0]
            /\ inputHP = [coeff |-> Mul(onePoleCoeff(DefaultParams.lowCutHz, sampleRate), 50000),
                          stateL |-> 0, stateR |-> 0]

SpecConstruct == InitConstruct /\ [][NextNoProcess]_vars

\* ------------------------------------------------------------ pre-delay over its range
\* set preDelayMs(value) with the ends of the range and one sample's worth:
\* offsets of 0, 1 and maxPreDelay samples at 48 kHz (the default gives 960)
PreDelayCalls == {0, 30000, 200 * ONE}

NextPreDelay ==
  \/ \E v \in PreDelayCalls : NodeSet("preDelayMs", v)
  \/ OnMessage
  \/ \E input \in InputBlocks : Process(input)

SpecPreDelay == Init /\ [][NextPreDelay]_vars

\* ------------------------------------------------------------ resizing under way
\* Audio runs first: one long block of silence moves every write index
\* LongBlockFrames on.  Then updateParameters posts a new size and mode, over
\* the range of size and the four modes.
LongBlock == << [k \in 1..LongBlockFrames |-> 0] >>

ResizeUpdates == { [size |-> z, mode |-> m] : z \in {0, 300000, ONE}, m \in 0..3 }

ProcessFirst == ops = 0 /\ Process(LongBlock)

NextResize ==
  \/ ProcessFirst
  \/ \E r \in ResizeUpdates : NodeUpdateParameters(r)
  \/ OnMessage

SpecResize == Init /\ [][NextResize]_vars

\* ------------------------------------------------------------ vocabulary of the properties
\* a step of port.onmessage: the head of the port is consumed
MessageStep == port # << >> /\ port' = Tail(port)

\* a step of process(): an operation that leaves the port alone
ProcessStep == ops' = ops + 1 /\ port' = port

Finite(x) == x # NaN /\ x # INF /\ x # 0 - INF

\* every field inside its documented range
ValidParams(p) ==
  /\ \A f \in Fields \ {"decay", "preDelayMs", "lowCutHz", "highCutHz", "mode"} :
       p[f] >= 0 /\ p[f] <= ONE
  /\ p.preDelayMs >= 0 /\ p.preDelayMs <= 200 * ONE
  /\ p.decay > 0 /\ p.decay <= 30 * ONE
  /\ p.lowCutHz >= 20 /\ p.lowCutHz <= 1000
  /\ p.highCutHz >= 500 /\ p.highCutHz <= 20000
  /\ p.mode \in 0..3

OutputSamples == { outputs[c][k] : c \in 1..2, k \in 1..Len(outputs[1]) }


\* the channel of the input block that feeds output channel c (a single
\* input channel feeds both)
InputChannel(input, c) == IF Len(input) >= c THEN input[c] ELSE input[1]

\* the fields of a delay structure that are not coefficients
LineSignal(l) == <<l.buffer, l.capacity, l.index, l.dampState, l.hpState>>
AllpassSignal(a) == <<a.buffer, a.capacity, a.index>>
AllSignal ==
  << [i \in 0..7 |-> LineSignal(fdnLines[i])],
     [i \in 0..3 |-> AllpassSignal(diffusionA[i])],
     [i \in 0..3 |-> AllpassSignal(diffusionAR[i])],
     [i \in 0..2 |-> AllpassSignal(diffusionB[i])],
     [i \in 0..2 |-> AllpassSignal(diffusionBR[i])],
     earlyDelays, earlyDelaysR, preDelayBuffer, preDelayIndex,
     [i \in 0..3 |-> lfos[i].phase],
     <<outputLP.stateL, outputLP.stateR, outputHP.stateL, outputHP.stateR,
       inputHP.stateL, inputHP.stateR>>,
     fdnMatrix, noiseGen >>

\* the coefficient set but for the per-line damping coefficients
CoefficientsButDamping ==
  << [i \in 0..7 |-> <<fdnLines[i].size, fdnLines[i].hpCoeff, fdnLines[i].modDepth>>],
     [i \in 0..3 |-> <<diffusionA[i].gain, diffusionA[i].modDepth>>],
     [i \in 0..3 |-> <<diffusionAR[i].gain, diffusionAR[i].modDepth>>],
     [i \in 0..2 |-> <<diffusionB[i].gain, diffusionB[i].modDepth>>],
     [i \in 0..2 |-> <<diffusionBR[i].gain, diffusionBR[i].modDepth>>],
     fdnFeedback, inputHP.coeff, outputLP.coeff, [i \in 0..3 |-> lfos[i].rate] >>

DampingCoefficients == [i \in 0..7 |-> fdnLines[i].dampCoeff]

\* the damping coefficient before the jitter, for the record p
DampBase(p) == Mul(onePoleCoeff(p.highCutHz, sampleRate), ModePreset(p).dampBase)

\* What one call of processAllpass did, read back from the filter before
\* and after a block that does not wrap its write index: in the block's
\* frame j the filter wrote at index + j, and read its delayed value from
\* a buffer in which the frames before j had written and frame j, and the
\* frames after it, had not.
AllpassWritten(after, before, j) ==
  BufRead(after.buffer, after.capacity, before.index + j)

BufferAtFrame(after, before, j) ==
  [k \in (DOMAIN after.buffer) \cup (DOMAIN before.buffer) |->
     IF k >= before.index + j THEN BufRead(before.buffer, before.capacity, k)
     ELSE BufRead(after.buffer, after.capacity, k)]

AllpassDelayed(after, before, j, lfoValue) ==
  FractionalRead(BufferAtFrame(after, before, j), after.capacity, before.index + j,
                 after.size, Mul(after.modDepth, lfoValue))

\* the input of the call: the value written less gain * delayed
AllpassInput(after, before, j, lfoValue) ==
  Sub(AllpassWritten(after, before, j),
      Mul(after.gain, AllpassDelayed(after, before, j, lfoValue)))

\* ------------------------------------------------------------ C1
\* C1 (as claimed): whenever the parameter record is valid, every sample
\* process() has written to either output channel is a finite number in
\* [-1, 1].
C1_OutputBounded ==
  ValidParams(params) =>
    \A x \in OutputSamples : Finite(x) /\ x >= 0 - ONE /\ x <= ONE

\* ------------------------------------------------------------ C2
\* C2 (as claimed): after construction and after every update, the logical
\* length of each of the 8 FDN lines is at most the length of its buffer.
C2_LengthWithinCapacity ==
  \A i \in 0..7 : fdnLines[i].size <= fdnLines[i].capacity

\* ------------------------------------------------------------ C3
\* C3: in every reachable state the FDN feedback gain is a number that is
\* at most 0.985.
C3_FeedbackCapped == Finite(fdnFeedback) /\ fdnFeedback <= FeedbackCap

\* a recompute for decay = 30 s, the top of the range, has hit the cap
C3_Witness ==
  /\ port = << >>
  /\ params.decay = 30 * ONE
  /\ fdnFeedback = FeedbackCap

\* ------------------------------------------------------------ C4
\* C4 (as claimed): a block processed with mix = 0, valid parameters and
\* every line inside its buffer comes out equal to the input block,
\* channel by channel, to within 1e-5.
C4_BypassIdentity ==
  [][ (ProcessStep /\ params.mix = 0 /\ ValidParams(params) /\ C2_LengthWithinCapacity)
        => \A c \in 1..2 : \A k \in 1..Len(outputs'[c]) :
             /\ Finite(outputs'[c][k])
             /\ Abs(outputs'[c][k] - InputChannel(inputs', c)[k]) <= 10 ]_vars

\* ------------------------------------------------------------ C5
\* C5 (as claimed): the divisor of the RT60 formula is strictly positive,
\* whatever decay the updates supplied.
C5_DivisorPositive == targetRT60(params) > 0

\* ------------------------------------------------------------ C6
\* C6: when a message is handled, every field the message names takes the
\* message's value and every other field keeps the value it had.
C6_MergeRetains ==
  [][ (MessageStep /\ Head(port).type = "updateParams")
        => \A f \in Fields :
             params'[f] = IF f \in DOMAIN Head(port).params
                            THEN Head(port).params[f]
                            ELSE params[f] ]_vars

\* two one-field updates have been merged, the second keeping the first
C6_Witness == port = << >> /\ params.mix = 0 /\ params.mode = 3

\* ------------------------------------------------------------ C7
\* C7: handling a message leaves every buffer's contents and capacity,
\* every write index, every filter state, every LFO phase, the noise
\* generator and the mixing matrix as they were.
C7_UpdateKeepsSignal == [][ MessageStep => AllSignal' = AllSignal ]_vars

\* mix = 0 has been applied to an engine whose latest block was mixed at
\* the default 0.5, that is, after audio went through the buffers
C7_Witness ==
  /\ port = << >>
  /\ params.mix = 0
  /\ preDelayIndex > 0
  /\ outputs[1] # << >>
  /\ outputs[1][1] = Mul(inputs[1][1], 500000)

\* ------------------------------------------------------------ C8
\* C8: process() called with no input channel or with an empty one writes
\* no output sample and leaves the whole engine state as it was.
C8_SilentInputNoOp ==
  [][ (ProcessStep /\ inputs' \in SilentInputs)
        => /\ outputs' = << << >>, << >> >>
           /\ AllSignal' = AllSignal
           /\ CoefficientsButDamping' = CoefficientsButDamping
           /\ DampingCoefficients' = DampingCoefficients
           /\ params' = params ]_vars

\* a silent block was the latest one, on an engine that has processed audio
C8_Witness == inputs \in SilentInputs /\ preDelayIndex > 0

\* ------------------------------------------------------------ C9
\* C9: in every state, hence at the start of every process() call, the
\* coefficient set is the one the mapper derives from the parameter record
\* as it stands: no state mixes coefficients of two records.
C9_CoherentCoefficients ==
  /\ \A i \in 0..7 :
       /\ fdnLines[i].size = LineSize(fdnLines[i].baseSize, params)
       /\ fdnLines[i].hpCoeff = Mul(onePoleCoeff(params.lowCutHz, sampleRate),
                                    ModePreset(params).hpBase)
       /\ fdnLines[i].modDepth = Mul(params.modDepth, 500000) * 5
       /\ \E rnd \in {RandomLow, RandomHigh} :
            fdnLines[i].dampCoeff = DampJitter(DampBase(params), rnd)
  /\ diffusionA = MappedAllpass(diffusionA, params, 700000, 2)
  /\ diffusionAR = MappedAllpass(diffusionAR, params, 680000, 2)
  /\ diffusionB = MappedAllpass(diffusionB, params, 600000, 3)
  /\ diffusionBR = MappedAllpass(diffusionBR, params, 580000, 3)
  /\ fdnFeedback = MappedFeedback(fdnLines, params, sampleRate)
  /\ inputHP.coeff = Mul(onePoleCoeff(params.lowCutHz, sampleRate), 50000)
  /\ outputLP.coeff = onePoleCoeff(ColorCutoff(params), sampleRate)
  /\ \A i \in 0..3 : lfos[i].rate = LfoRate(params, i)

\* a block has been processed after mix = 0 was applied: its first sample,
\* which meets empty buffers, came out unmixed
C9_Witness ==
  /\ port = << >>
  /\ params.mix = 0
  /\ outputs[1] # << >>
  /\ outputs[1][1] = inputs[1][1]

\* ------------------------------------------------------------ C10
\* C10 (as claimed): handling a message that leaves the parameter record as
\* it was leaves every derived coefficient, the damping coefficient of
\* each FDN line included, as it was.
C10_Idempotent ==
  [][ (MessageStep /\ params' = params)
        => /\ CoefficientsButDamping' = CoefficientsButDamping
           /\ DampingCoefficients' = DampingCoefficients ]_vars

\* C10 (amended): handling a message that leaves the parameter record as it
\* was leaves every derived coefficient but the damping coefficients as it
\* was; each damping coefficient is redrawn within 0.95 .. 1.05 of the
\* same base value.
C10_IdempotentButJitter ==
  [][ (MessageStep /\ params' = params)
        => /\ CoefficientsButDamping' = CoefficientsButDamping
           /\ \A i \in 0..7 :
                /\ fdnLines'[i].dampCoeff >= DampJitter(DampBase(params), 0)
                /\ fdnLines'[i].dampCoeff <= DampJitter(DampBase(params), ONE) ]_vars

\* the node's first message, equal to the defaults, has been handled on
\* top of the constructor's own recompute, and nothing else has happened
C10_Witness == ops = 0 /\ port = << >> /\ params = DefaultParams

\* ------------------------------------------------------------ C11
\* C11 (as claimed): construction fails exactly when the sampling rate is
\* zero or negative: it fails for every rate <= 0, zero included, and
\* succeeds for every positive rate.
C11_ConstructionRejectsNonPositive ==
  (sampleRate <= 0) <=> (engine = "failed")

\* ------------------------------------------------------------ C12
\* C12 (as claimed): in every block processed, the pre-delay output of each
\* sample (the value the early-reflection taps are fed with) is the downmix
\* written d = floor(preDelayMs / 1000 * sr) samples earlier, zero when
\* fewer than d samples have been written, and for d = 0 the downmix of
\* the sample itself.  Stated while the write positions have not wrapped.
C12_PreDelayOffset ==
  [][ (/\ ProcessStep
       /\ inputs' \in SoundingInputs
       /\ preDelayIndex = earlyDelays[0].index
       /\ preDelayIndex + Len(inputs'[1]) < earlyDelays[0].capacity)
        => \A j \in 0..(Len(inputs'[1]) - 1) :
             BufRead(earlyDelays'[0].buffer, earlyDelays[0].capacity, preDelayIndex + j)
               = IF preDelayIndex + j - preDelayTime(params, sampleRate) >= 0
                   THEN BufRead(preDelayBuffer', maxPreDelay(sampleRate),
                                preDelayIndex + j - preDelayTime(params, sampleRate))
                   ELSE 0 ]_vars

\* ------------------------------------------------------------ C13
\* C13 (as claimed): in every frame of a block, the first allpass filter of
\* diffusion stage A, with gain g, input x and delayed value d, returns
\* d + g * (x - g * d), to within 1e-5: what it returns is the input of the
\* second filter.  On an engine whose early-reflection buffers are still
\* empty its input x is the pre-delay output, so that it writes that
\* value + g * d.
C13_AllpassTransfer ==
  [][ (/\ ProcessStep
       /\ inputs' \in SoundingInputs
       /\ diffusionA[0].index + Len(inputs'[1]) < diffusionA[1].size
       /\ diffusionA[1].index + Len(inputs'[1]) < diffusionA[1].size)
        => \A j \in 0..(Len(inputs'[1]) - 1) :
             LET lfo == LfoValues(lfos')
                 g == diffusionA[0].gain
                 d == AllpassDelayed(diffusionA'[0], diffusionA[0], j, lfo[0])
                 x == AllpassInput(diffusionA'[0], diffusionA[0], j, lfo[0])
                 returned == AllpassInput(diffusionA'[1], diffusionA[1], j, lfo[1])
             IN  /\ Finite(returned)
                 /\ Abs(returned - Add(d, Mul(g, Sub(x, Mul(g, d))))) <= 10
                 /\ (\A i \in 0..7 : earlyDelays[i].buffer = EmptyBuffer)
                      => x = BufRead(earlyDelays'[0].buffer, earlyDelays[0].capacity,
                                     earlyDelays[0].index + j) ]_vars

\* ------------------------------------------------------------ C14
\* C14 (as claimed): in every reachable state the write index of each FDN
\* line is at least 0 and below the line's logical length.
C14_WriteIndexInWindow ==
  \A i \in 0..7 : fdnLines[i].index >= 0 /\ fdnLines[i].index < fdnLines[i].size

====
